---- MODULE Spec2Model ----
(***************************************************************************)
(* Plan-then-execute orchestrator of xAgentic-backend.                     *)
(*                                                                         *)
(* The model follows graph/plan_executor_graph.py (the LangGraph state     *)
(* graph analyze_and_plan -> execute_node -> generate_response, and the    *)
(* consumer chat_with_planning_stream that turns the graph's events into   *)
(* the caller's stream) and api/chat.py (the /stream and /feedback-stream  *)
(* endpoints and the process-wide _graph_instances registry).              *)
(*                                                                         *)
(* The graph runs in its own task and its synchronous nodes run off the    *)
(* event loop, so a node and the consumer of the events of the earlier     *)
(* nodes interleave: the graph appends to `events`, the consumer pops.     *)
(*                                                                         *)
(* Scope: one /stream request per behaviour (one run of the graph under    *)
(* the thread id user_id), and any number of /feedback-stream requests up  *)
(* to MaxFeedback, at any point before, during or after the run.           *)
(*                                                                         *)
(* Spec is that run. SessionsSpec is several PlanExecutorGraph instances   *)
(* and their runs over the shared graph; SerdeSpec, ExtractSpec and        *)
(* JsonSpec apply utils/custom_serializer.py, the result extraction of     *)
(* _do_execute and graph/base_graph.py, and utils/json_utils.py to inputs  *)
(* drawn from bounded sets.                                                *)
(* FairSpec is Spec with the graph's task and the stream's generator not   *)
(* starved. McpSpec is one MCPClientManager of mcp_/client.py called by    *)
(* several tasks.                                                          *)
(***************************************************************************)
EXTENDS Integers, Sequences, FiniteSets, TLC

\* ------------------------------------------------------------------ bounds
MaxSteps == 2        \* longest execution_plan the planner returns
MaxFeedback == 2     \* feedback requests made during one behaviour

MaxInstances == 2    \* PlanExecutorGraph instances constructed
RunNodes == 2        \* node executions of one run in SessionsSpec
MaxMessages == 2     \* messages in an agent result given to the result extraction
MaxTokens == 6       \* tokens in a content given to json_match
MaxTasks == 2        \* tasks calling one MCPClientManager concurrently
MaxCalls == 5        \* calls the tasks make on it during one behaviour

\* len(execution_result) < 10 in _extract_execution_result
MinResultLength == 10

\* --------------------------------------------------------------- constants
user_id == "user01"
ThreadIds == {user_id, "other"}

Terminal == {"completed", "failed"}

\* A step of execution_plan as the planner's JSON gives it. The code never
\* validates the items: is_dict = FALSE stands for an item that is no JSON
\* object (current_node.get raises inside the execute node).
PlainStep == [is_dict |-> TRUE, requires_confirmation |-> FALSE]
FlaggedStep == [is_dict |-> TRUE, requires_confirmation |-> TRUE]
MalformedStep == [is_dict |-> FALSE, requires_confirmation |-> FALSE]
StepShapes == {PlainStep, FlaggedStep, MalformedStep}

RECURSIVE SeqsUpTo(_, _)
SeqsUpTo(S, n) ==
    IF n = 0 THEN {<<>>}
    ELSE LET shorter == SeqsUpTo(S, n - 1)
         IN  shorter \cup {Append(p, s) : p \in {q \in shorter : Len(q) = n - 1}, s \in S}

\* state["messages"] as chat.py builds it: HumanMessage(request.message), or
\* conversation_history with its even positions as HumanMessage and its odd
\* ones as AIMessage. content is "" or a text.
HumanMsg(content) == [human |-> TRUE, content |-> content]
AIMsg(content) == [human |-> FALSE, content |-> content]
Conversations ==
    {<<HumanMsg("")>>,
     <<HumanMsg("task"), AIMsg("reply")>>,
     <<HumanMsg("task"), AIMsg("reply"), HumanMsg("")>>}

\* What plan_llm.invoke gives the planning node: it raises, or its content
\* parses (json_match) to a payload whose execution_plan is this sequence
\* (<<>>: no payload recovered, or a missing/empty execution_plan).
PlannerReplies ==
    {[raises |-> TRUE, execution_plan |-> <<>>]}
        \cup {[raises |-> FALSE, execution_plan |-> p] : p \in SeqsUpTo(StepShapes, MaxSteps)}

\* What plan_llm.invoke gives the summary: it raises, or its stripped content.
SummaryReplies == {"raise", "", "summary"}

\* PlanExecutorGraph objects, and the thread ids chat_with_planning_stream
\* is called with.
InstanceIds == 1..MaxInstances
SessionIds == {"s1", "s2"}
NoRun == [sid |-> "none", node |-> 0, active |-> FALSE]
NoCheckpoint == [writer |-> 0, node |-> 0]

\* Values the checkpoint serializer handles. kind is "dict", "message",
\* "bytes" or "none"; type is a dict's 'type' entry ("absent" without one) or
\* a message's class; body holds the other entries or attributes.
NoValue == [kind |-> "none", type |-> "absent", body |-> [none |-> TRUE]]
MessageClasses == {"ToolMessage", "AIMessage", "HumanMessage", "SystemMessage"}

\* Classes of messages the serializer's isinstance tests accept: the four
\* classes and their subclasses, here the chunk classes a streamed reply is
\* made of. BaseOf names the one of the four a class is or derives from.
ChunkClasses == {"ToolMessageChunk", "AIMessageChunk", "HumanMessageChunk", "SystemMessageChunk"}
BaseOf(class) ==
    IF class \in {"ToolMessage", "ToolMessageChunk"} THEN "ToolMessage"
    ELSE IF class \in {"AIMessage", "AIMessageChunk"} THEN "AIMessage"
    ELSE IF class \in {"HumanMessage", "HumanMessageChunk"} THEN "HumanMessage"
    ELSE IF class \in {"SystemMessage", "SystemMessageChunk"} THEN "SystemMessage"
    ELSE "object"

\* A PlanExecutorState as the graph checkpoints it: a dict without a 'type'
\* entry (of its keys, the three a resumed run continues from).
ExecutionState(plan, cursor, results) ==
    [kind |-> "dict", type |-> "absent",
     body |-> [execution_plan |-> plan, current_step |-> cursor, step_results |-> results]]
ResultsUpTo(cursor, last) ==
    [i \in 1..cursor |-> [step |-> i, status |-> IF i = cursor THEN last ELSE "completed"]]
ExecutionStates ==
    UNION {{ExecutionState(plan, cursor, ResultsUpTo(cursor, last)) :
                cursor \in 0..Len(plan), last \in {"completed", "failed"}} :
           plan \in SeqsUpTo(StepShapes, MaxSteps)}

\* A chat message: the attributes the serializer copies, and `other` for
\* all the attributes it does not ("default": as the constructor sets them).
Message(class, content, other) ==
    [kind |-> "message", type |-> class,
     body |-> [content |-> content, id |-> "id1", additional_kwargs |-> "kw1",
               tool_call_id |-> IF BaseOf(class) = "ToolMessage" THEN "call1" ELSE "None",
               name |-> IF BaseOf(class) = "ToolMessage" THEN "tool1" ELSE "None",
               other |-> other]]
SampleMessages ==
    {Message(class, content, "default") :
        class \in MessageClasses \cup ChunkClasses, content \in {"", "text"}}

SerdeInputs == ExecutionStates \cup SampleMessages

\* Stored bytes that are no pickle of anything (truncated, overwritten), and
\* the (type, bytes) pairs a checkpoint store may hold them under.
CorruptBytes == [kind |-> "bytes", type |-> "corrupt", body |-> [none |-> TRUE]]
CorruptStored == {<<type_str, CorruptBytes>> : type_str \in {"pickle"} \cup MessageClasses}

\* A text, by what the result extraction looks at: its length and whether
\* its lower-cased form contains "sorry".
Text(len, sorry) == [len |-> len, sorry |-> sorry]
TextLengths == {0, 9, 10}
Texts == {Text(len, sorry) : len \in TextLengths, sorry \in BOOLEAN} \ {Text(0, TRUE)}
EmptyText == Text(0, FALSE)

\* The classes of the messages an agent result holds.
ResultMessageClasses == {"AIMessage", "HumanMessage", "ToolMessage"}
ResultMessages == {[class |-> class, content |-> t] : class \in ResultMessageClasses, t \in Texts}

\* What agent.invoke returns: a dict with a "messages" list, a single
\* message object, a str, or None.
MessagesResult(msgs) == [kind |-> "messages", messages |-> msgs, text |-> EmptyText]
MessageResult(t) == [kind |-> "message", messages |-> <<>>, text |-> t]
TextResult(t) == [kind |-> "text", messages |-> <<>>, text |-> t]
NoResult == [kind |-> "none", messages |-> <<>>, text |-> EmptyText]
ExtractInputs ==
    {MessagesResult(msgs) : msgs \in SeqsUpTo(ResultMessages, MaxMessages)}
        \cup {MessageResult(t) : t \in Texts}
        \cup {TextResult(t) : t \in Texts}
        \cup {NoResult}

\* An extracted execution result: the text, as it is or wrapped with the
\* step's description and the completed annotation.
Extraction(t, wrapped) == [text |-> t, wrapped |-> wrapped]
NoExtraction == Extraction(EmptyText, FALSE)

\* A content given to json_match, as tokens: the two braces, "v" for text
\* that is well-formed inside a JSON object (members, separators, arrays)
\* and "x" for text that is not.
JsonTokens == {"{", "}", "v", "x"}
Contents == SeqsUpTo(JsonTokens, MaxTokens)

\* The empty dict, as the tokens of its text.
EmptyObject == <<"{", "}">>

\* One MCPClientManager and the tasks calling it. mcp_configs is the list
\* the manager was constructed with: empty, with no server configuration
\* that passes _validate_server_config, or with one that does.
Tasks == 1..MaxTasks
NoTask == 0
NoClient == 0
McpConfigs == {"empty", "invalid", "valid"}
McpEvent(kind, task, client) == [kind |-> kind, task |-> task, client |-> client]

VARIABLES
    instances,          \* chat.py _graph_instances: the thread ids registered
    messages,           \* state["messages"]: the conversation, <<>> before start
    next_node,          \* the graph's next node, "idle" before start
    status,             \* state["status"]
    execution_plan,     \* state["execution_plan"]
    task_analysis,      \* state["task_analysis"]
    current_step,       \* state["current_step"]
    step_results,       \* state["step_results"]
    final_response,     \* state["final_response"]
    error,              \* state["error"]
    streaming_chunks,   \* state["streaming_chunks"]
    emits_stream,       \* whether the event source also reports node output as on_chain_stream
    events,             \* events of astream_events not yet consumed
    stream,             \* the caller's stream: "none" | "open" | "closed" ("raised": ended by an exception)
    delivered,          \* what chat_with_planning_stream has yielded
    plan_calls,         \* planning inference calls made
    agent_calls,        \* _do_execute calls made, in order: [step, created: the agent is created,
                        \* ok: the agent answers if invoked, fallbacks]
    summary_calls,      \* summary inference calls made
    execute_runs,       \* times the graph ran execute_node
    feedback_calls,     \* feedback requests handled
    update_state_calls, \* graph.update_state calls made by the feedback endpoint
    last_feedback,      \* the last feedback request and what became of it
    \* PlanExecutorGraph instances and the runs started through them
    shared_owner,       \* the instance whose methods _shared_graph runs, 0: not _initialized
    inst_thread,        \* each instance's thread_id ("absent": not constructed, "None")
    run_of,             \* each instance's run of chat_with_planning_stream
    checkpoint,         \* per thread id, the run that wrote the latest checkpoint and its step
    agent_log,          \* per step execution: [session, thread_used: self.thread_id in _do_execute]
    \* the checkpoint serializer
    serde_pc,           \* "off" | "input" | "dumped" | "stored" | "loaded"
    serde_in,           \* the object given to dumps_typed
    serde_data,         \* the (type, bytes) pair dumps_typed returned
    serde_out,          \* what loads_typed returned
    \* the result extraction
    ex_pc,              \* "off" | "input" | "plan_done" | "done"
    ex_in,              \* the agent's result
    ex_plan,            \* what _do_execute extracts from it
    ex_base,            \* what BaseGraph._extract_execution_result extracts from it
    \* json_match
    jm_pc,              \* "off" | "input" | "done"
    jm_in,              \* the content
    jm_out,             \* what json_match returned
    \* the MCP client manager
    mcp_configs,        \* self.mcp_configs ("off": no manager)
    mcp_client,         \* self._client: NoClient for None, else the client's number
    client_lock,        \* the task holding self._client_lock, NoTask: unlocked
    task_pc,            \* per task: "idle" | "acquire" | "locked" | "create"
    task_op,            \* per task: the call it is in, "get" or "close"
    calls_made,         \* calls made so far
    mcp_log             \* what happened, in order: clients constructed, clients
                        \* returned, constructions failed, close_client calls done

graph_state == <<status, execution_plan, task_analysis, current_step, step_results, final_response,
                 error, streaming_chunks>>
graph_vars == <<messages, next_node, graph_state, emits_stream, plan_calls, agent_calls,
                summary_calls, execute_runs>>
stream_vars == <<events, stream, delivered>>
feedback_vars == <<feedback_calls, update_state_calls, last_feedback>>
plan_exec_vars == <<instances, graph_vars, stream_vars, feedback_vars>>
sess_vars == <<shared_owner, inst_thread, run_of, checkpoint, agent_log>>
serde_vars == <<serde_pc, serde_in, serde_data, serde_out>>
extract_vars == <<ex_pc, ex_in, ex_plan, ex_base>>
json_vars == <<jm_pc, jm_in, jm_out>>
mcp_vars == <<mcp_configs, mcp_client, client_lock, task_pc, task_op, calls_made, mcp_log>>
fun_vars == <<extract_vars, json_vars, mcp_vars>>
beside_graph == <<sess_vars, serde_vars, fun_vars>>
vars == <<plan_exec_vars, sess_vars, serde_vars, fun_vars>>

NoFeedback == [thread_id |-> "none", known |-> FALSE, status_at |-> "none",
               at_flagged |-> FALSE, cursor_at |-> 0, update_state |-> FALSE,
               outcome |-> "none"]

GraphInit ==
    /\ instances = {}
    /\ messages = <<>>
    /\ next_node = "idle"
    /\ status = "none"
    /\ execution_plan = <<>>
    /\ task_analysis = ""
    /\ current_step = 0
    /\ step_results = <<>>
    /\ final_response = ""
    /\ error = ""
    /\ streaming_chunks = <<>>
    /\ emits_stream = FALSE
    /\ events = <<>>
    /\ stream = "none"
    /\ delivered = <<>>
    /\ plan_calls = 0
    /\ agent_calls = <<>>
    /\ summary_calls = 0
    /\ execute_runs = 0
    /\ feedback_calls = 0
    /\ update_state_calls = 0
    /\ last_feedback = NoFeedback

SessInit ==
    /\ shared_owner = 0
    /\ inst_thread = [i \in InstanceIds |-> "absent"]
    /\ run_of = [i \in InstanceIds |-> NoRun]
    /\ checkpoint = [t \in SessionIds |-> NoCheckpoint]
    /\ agent_log = {}

SerdeOff ==
    /\ serde_in = NoValue
    /\ serde_data = <<"none", NoValue>>
    /\ serde_out = NoValue

ExtractOff ==
    /\ ex_in = NoResult
    /\ ex_plan = NoExtraction
    /\ ex_base = NoExtraction

JsonOff ==
    /\ jm_in = <<>>
    /\ jm_out = <<>>

\* MCPClientManager.__init__: no client, a fresh lock.
McpNew ==
    /\ mcp_client = NoClient
    /\ client_lock = NoTask
    /\ task_pc = [t \in Tasks |-> "idle"]
    /\ task_op = [t \in Tasks |-> "get"]
    /\ calls_made = 0
    /\ mcp_log = <<>>

McpOff ==
    /\ mcp_configs = "off"
    /\ McpNew

FunOff ==
    /\ ex_pc = "off"
    /\ ExtractOff
    /\ jm_pc = "off"
    /\ JsonOff
    /\ McpOff

Init ==
    /\ GraphInit
    /\ SessInit
    /\ serde_pc = "off"
    /\ SerdeOff
    /\ FunOff

\* ------------------------------------------------------------ the graph

\* _add_streaming_chunk: the chunk appended to state["streaming_chunks"]
\* (node_index is -1 for a chunk whose data names no node).
Chunk(step, node_index) == [step |-> step, node_index |-> node_index]

\* The events astream_events reports when a node finishes with this output.
NodeEvents(name, st, chunks, err) ==
    LET ev(kind) == [event |-> kind, name |-> name, status |-> st,
                     streaming_chunks |-> chunks, error |-> err]
    IN  IF stream # "open" THEN events
        ELSE events \o (IF emits_stream THEN <<ev("on_chain_stream")>> ELSE <<>>)
                    \o <<ev("on_chain_end")>>

\* POST /api/chat/stream: registers the graph instance under user_id and runs
\* chat_with_planning_stream, which starts the graph from initial_state.
Start(msgs, es) ==
    /\ next_node = "idle"
    /\ instances' = instances \cup {user_id}
    /\ messages' = msgs
    /\ emits_stream' = es
    /\ status' = "initializing"
    /\ execution_plan' = <<>>
    /\ task_analysis' = ""
    /\ current_step' = 0
    /\ step_results' = <<>>
    /\ final_response' = ""
    /\ error' = ""
    /\ streaming_chunks' = <<>>
    /\ next_node' = "analyze_and_plan"
    /\ stream' = "open"
    /\ UNCHANGED beside_graph
    /\ UNCHANGED <<events, delivered, plan_calls, agent_calls, summary_calls, execute_runs,
                   feedback_vars>>

\* Faulty variant: the first human message is taken, not the last.
GetUserInputFirst(msgs) ==
    LET humans == {i \in 1..Len(msgs) : msgs[i].human}
    IN  IF humans = {} THEN ""
        ELSE msgs[CHOOSE i \in humans : \A j \in humans : i <= j].content

\* _get_user_input: the content of the last HumanMessage ("" stands for the
\* None of a conversation without one: the caller tests `not user_input`).
GetUserInput(msgs) ==
    LET humans == {i \in 1..Len(msgs) : msgs[i].human}
    IN  IF humans = {} THEN ""
        ELSE msgs[CHOOSE i \in humans : \A j \in humans : i >= j].content

\* _analyze_and_plan. The edge out of it is unconditional (add_edge
\* "analyze_and_plan" -> "execute_node"), whatever status it leaves.
AnalyzeAndPlan(reply) ==
    /\ next_node = "analyze_and_plan"
    /\ LET has_input == GetUserInput(messages) # ""
           planned == has_input /\ ~reply.raises /\ reply.execution_plan # <<>>
           err == IF ~has_input THEN "no_user_input"
                  ELSE IF reply.raises THEN "llm_error" ELSE "plan_parse_failed"
           chunks == IF planned THEN Append(streaming_chunks, Chunk("planning", -1))
                     ELSE streaming_chunks
           st == IF planned THEN "planned" ELSE "failed"
       IN  /\ plan_calls' = IF has_input THEN plan_calls + 1 ELSE plan_calls
           /\ execution_plan' = IF planned THEN reply.execution_plan ELSE execution_plan
           /\ task_analysis' = IF planned THEN "analysis" ELSE task_analysis
           /\ current_step' = IF planned THEN 0 ELSE current_step
           /\ step_results' = IF planned THEN <<>> ELSE step_results
           /\ error' = IF planned THEN error ELSE err
           /\ status' = st
           /\ streaming_chunks' = chunks
           /\ events' = NodeEvents("analyze_and_plan", st, chunks, error')
    /\ next_node' = "execute_node"
    /\ UNCHANGED beside_graph
    /\ UNCHANGED <<instances, messages, final_response, emits_stream, stream, delivered,
                   agent_calls, summary_calls, execute_runs, feedback_vars>>

\* The variables of the react_prompt template, and the keyword arguments
\* _do_execute gives react_prompt.format.
ReactPromptVariables == {"description", "user_feedback", "expected_result", "tools"}
ReactFormatArguments == {"description", "expected_result", "tools"}

\* PromptTemplate.format raises KeyError for a variable of the template that
\* is not among the keyword arguments.
FormatRaises(variables, arguments) == ~(variables \subseteq arguments)

\* react_prompt.format(description=..., expected_result=..., tools=...)
\* returns the step's prompt.
PromptBuilt == ~FormatRaises(ReactPromptVariables, ReactFormatArguments)

\* The exception the try block of _do_execute ends with, "" when it ends
\* with none: create_react_agent, react_prompt.format and agent.invoke are
\* called in this order. create_ok: create_react_agent returns an agent;
\* agent_ok: the agent, if it is invoked, answers without raising (it raises
\* its own errors, those of its tools, and GraphRecursionError past the
\* recursion_limit of 10).
TryBlockError(create_ok, agent_ok) ==
    IF ~create_ok THEN "create_react_agent"
    ELSE IF ~PromptBuilt THEN "KeyError"
    ELSE IF ~agent_ok THEN "agent_invoke"
    ELSE ""

\* Faulty variant: the result carries the 0-based index as its step number.
DoExecuteZeroBased(node_index, create_ok, agent_ok) ==
    LET e == TryBlockError(create_ok, agent_ok)
    IN  [step |-> node_index,
         status |-> IF e = "" THEN "completed" ELSE "failed",
         error_details |-> e]

\* Faulty variant: an error of the agent leaves what was extracted so far
\* as the step's result.
DoExecutePartial(node_index, create_ok, agent_ok) ==
    LET e == TryBlockError(create_ok, agent_ok)
    IN  [step |-> node_index + 1,
         status |-> IF e \in {"", "agent_invoke", "KeyError"} THEN "completed" ELSE "failed",
         error_details |-> IF e \in {"", "agent_invoke", "KeyError"} THEN "" ELSE e]

\* _do_execute: the StepResult of one step execution. The agent is created,
\* the prompt built and the agent invoked inside one try block: every
\* exception of these is caught and becomes a failed result with the
\* exception's text as error_details (and within execution_result).
DoExecute(node_index, create_ok, agent_ok) ==
    LET e == TryBlockError(create_ok, agent_ok)
    IN  [step |-> node_index + 1,
         status |-> IF e = "" THEN "completed" ELSE "failed",
         error_details |-> e]

\* The inference calls _do_execute makes besides the agent invocation: its
\* except branch builds the failed result and calls nothing.
FallbackCalls(agent_ok) == 0

\* Faulty variant: a failed node leads back to planning.
AfterExecuteNodeReplans(st) ==
    IF st = "all_nodes_completed" THEN "generate_response"
    ELSE IF st = "node_failed" THEN "analyze_and_plan"
    ELSE "execute_node"

\* Faulty variant: a failed node does not end the loop.
AfterExecuteNodeGoesOn(st) ==
    IF st = "all_nodes_completed" THEN "generate_response" ELSE "execute_node"

\* _after_execute_node: the node the conditional edge leads to.
AfterExecuteNode(st) ==
    IF st = "all_nodes_completed" THEN "generate_response"
    ELSE IF st = "node_failed" THEN "generate_response"
    ELSE "execute_node"

\* Faulty variant: the cursor is moved past the step after the one executed.
RecordResultSkipsAhead(node_result) ==
    [current_step |-> node_result.step + 1,
     step_results |-> Append(step_results, node_result)]

\* Faulty variant: a failed step is recorded without moving the cursor.
RecordResultKeepsCursor(node_result) ==
    [current_step |-> IF node_result.status = "failed" THEN current_step
                      ELSE current_step + 1,
     step_results |-> Append(step_results, node_result)]

\* _execute_node, "update state": the result is appended and the cursor
\* moved, whatever the result's status.
RecordResult(node_result) ==
    [current_step |-> current_step + 1,
     step_results |-> Append(step_results, node_result)]

\* _execute_node, as the new values of the state keys it writes.
ExecuteNodeOutput(create_ok, agent_ok) ==
    LET base == [status |-> status, current_step |-> current_step,
                 step_results |-> step_results, error |-> error,
                 streaming_chunks |-> streaming_chunks, invoked |-> FALSE]
    IN  IF current_step >= Len(execution_plan)
        THEN [base EXCEPT !.status = "all_nodes_completed"]
        ELSE IF ~execution_plan[current_step + 1].is_dict
        THEN [base EXCEPT !.status = "node_failed", !.error = "node_exception"]
        ELSE LET node_result == DoExecute(current_step, create_ok, agent_ok)
                 rec == RecordResult(node_result)
                 done == streaming_chunks \o <<Chunk("executing_node", current_step),
                                                Chunk("node_completed", current_step)>>
             IN  IF node_result.status = "failed"
                 THEN [status |-> "node_failed",
                       current_step |-> rec.current_step,
                       step_results |-> rec.step_results,
                       error |-> "node_failed",
                       streaming_chunks |-> Append(done, Chunk("execution_failed", current_step)),
                       invoked |-> TRUE]
                 ELSE [status |-> "node_completed",
                       current_step |-> rec.current_step,
                       step_results |-> rec.step_results,
                       error |-> error,
                       streaming_chunks |-> done,
                       invoked |-> TRUE]

ExecuteNode(create_ok, agent_ok) ==
    /\ next_node = "execute_node"
    /\ LET out == ExecuteNodeOutput(create_ok, agent_ok)
       IN  /\ status' = out.status
           /\ current_step' = out.current_step
           /\ step_results' = out.step_results
           /\ error' = out.error
           /\ streaming_chunks' = out.streaming_chunks
           /\ agent_calls' = IF out.invoked
                             THEN Append(agent_calls,
                                         [step |-> current_step + 1, created |-> create_ok,
                                          ok |-> agent_ok,
                                          fallbacks |-> FallbackCalls(agent_ok)])
                             ELSE agent_calls
           /\ events' = NodeEvents("execute_node", out.status, out.streaming_chunks, out.error)
           /\ next_node' = AfterExecuteNode(out.status)
    /\ execute_runs' = execute_runs + 1
    /\ UNCHANGED beside_graph
    /\ UNCHANGED <<instances, messages, execution_plan, task_analysis, final_response, emits_stream, stream,
                   delivered, plan_calls, summary_calls, feedback_vars>>

\* Faulty variant: a summary call that raises is recorded, and a canned text
\* completes the run in its place.
GenerateResponseOutputCanned(reply) ==
    LET formatted == \A i \in 1..Len(execution_plan) : execution_plan[i].is_dict
    IN  IF ~formatted
        THEN [called |-> FALSE, final_response |-> final_response, status |-> "failed",
              error |-> "format_error", completed |-> FALSE]
        ELSE [called |-> TRUE, final_response |-> IF reply = "raise" THEN "summary" ELSE reply,
              status |-> "completed",
              error |-> IF reply = "raise" THEN "summary_error" ELSE error,
              completed |-> TRUE]

\* _generate_response, as the new values of the state keys it writes. The
\* plan and the results are formatted first (step.get raises on a plan item
\* that is no dict), then the summary inference call is made; whatever
\* raises, the outer except branch records the error and sets status failed.
GenerateResponseOutput(reply) ==
    LET formatted == \A i \in 1..Len(execution_plan) : execution_plan[i].is_dict
    IN  IF ~formatted
        THEN [called |-> FALSE, final_response |-> final_response, status |-> "failed",
              error |-> "format_error", completed |-> FALSE]
        ELSE IF reply = "raise"
        THEN [called |-> TRUE, final_response |-> final_response, status |-> "failed",
              error |-> "summary_error", completed |-> FALSE]
        ELSE [called |-> TRUE, final_response |-> reply, status |-> "completed",
              error |-> error, completed |-> TRUE]

\* _generate_response: whatever led here.
GenerateResponse(reply) ==
    /\ next_node = "generate_response"
    /\ LET out == GenerateResponseOutput(reply)
           chunks == IF out.completed THEN Append(streaming_chunks, Chunk("completed", -1))
                     ELSE streaming_chunks
       IN  /\ summary_calls' = IF out.called THEN summary_calls + 1 ELSE summary_calls
           /\ final_response' = out.final_response
           /\ status' = out.status
           /\ error' = out.error
           /\ streaming_chunks' = chunks
           /\ events' = NodeEvents("generate_response", out.status, chunks, out.error)
    /\ next_node' = "END"
    /\ UNCHANGED beside_graph
    /\ UNCHANGED <<instances, messages, execution_plan, task_analysis, current_step, step_results,
                   emits_stream, stream, delivered, plan_calls, agent_calls, execute_runs,
                   feedback_vars>>

Running == {"analyze_and_plan", "execute_node", "generate_response"}

\* The graph runtime raises between two nodes (its recursion limit, a
\* checkpoint write): astream_events ends with that exception once the
\* events already reported are consumed.
GraphRaises ==
    /\ next_node \in Running
    /\ stream = "open"
    /\ next_node' = "raised"
    /\ UNCHANGED beside_graph
    /\ UNCHANGED <<instances, messages, graph_state, emits_stream, plan_calls, agent_calls,
                   summary_calls, execute_runs, stream_vars, feedback_vars>>

\* chat_with_planning_stream returned while the graph still had nodes to run:
\* the abandoned astream_events generator is finalized at some later point,
\* and the graph's task either got to its end before that or is cancelled.
GraphCancelled ==
    /\ next_node \in Running
    /\ stream = "closed"
    /\ next_node' = "cancelled"
    /\ UNCHANGED beside_graph
    /\ UNCHANGED <<instances, messages, graph_state, emits_stream, plan_calls, agent_calls,
                   summary_calls, execute_runs, stream_vars, feedback_vars>>

\* ------------------------------------------------- the caller's stream

\* The "type" chat_with_planning_stream gives a streaming chunk.
ChunkType(step) ==
    IF step = "node_completed" THEN "node_result"
    ELSE IF step = "completed" THEN "final_result"
    ELSE "streaming"

\* The events yielded for the streaming_chunks of one graph event: all of
\* them, each time.
YieldChunks(chunks) ==
    [i \in 1..Len(chunks) |->
        [type |-> ChunkType(chunks[i].step), step |-> chunks[i].step,
         node_index |-> chunks[i].node_index, error |-> ""]]

TerminalEvent(type, err) == [type |-> type, step |-> "none", node_index |-> -1, error |-> err]

\* One iteration of the async for over astream_events.
HandleEvent ==
    /\ stream = "open"
    /\ events # <<>>
    /\ LET e == Head(events)
           out == delivered \o YieldChunks(e.streaming_chunks)
       IN  IF e.event = "on_chain_end" /\ e.status = "completed"
           THEN /\ delivered' = Append(out, TerminalEvent("completed", ""))
                /\ stream' = "closed"
                /\ events' = <<>>
           ELSE IF e.event = "on_chain_end" /\ e.status = "failed"
           THEN /\ delivered' = Append(out, TerminalEvent("error", e.error))
                /\ stream' = "closed"
                /\ events' = <<>>
           ELSE /\ delivered' = out
                /\ stream' = stream
                /\ events' = Tail(events)
    /\ UNCHANGED beside_graph
    /\ UNCHANGED <<instances, graph_vars, feedback_vars>>

\* Faulty variant: the exception of astream_events leaves the generator.
OnStreamExceptionPropagates ==
    [delivered |-> delivered, stream |-> "raised"]

\* The except branch around the async for: the exception becomes an error
\* event and the generator returns.
OnStreamException ==
    [delivered |-> Append(delivered, TerminalEvent("error", "stream_exception")),
     stream |-> "closed"]

\* astream_events raises once the events already reported are consumed.
StreamException ==
    /\ stream = "open"
    /\ events = <<>>
    /\ next_node = "raised"
    /\ delivered' = OnStreamException.delivered
    /\ stream' = OnStreamException.stream
    /\ UNCHANGED beside_graph
    /\ UNCHANGED <<instances, graph_vars, events, feedback_vars>>

\* ------------------------------------------------------------ feedback

\* handle_user_feedback_stream up to its response: the only check is that a
\* graph instance is registered under the thread id (else the 404 is raised
\* and re-raised as a 500). Otherwise graph.update_state is called with keys
\* PlanExecutorState does not have, and the continuation stream ends in its
\* own except branch: PlanExecutorGraph has no process_streaming_events.
\* Faulty variant: the registry lookup is not checked.
FeedbackOutcomeUnchecked(tid) ==
    [update_state |-> TRUE, outcome |-> "stream_error"]

FeedbackOutcome(tid) ==
    IF tid \in instances
    THEN [update_state |-> TRUE, outcome |-> "stream_error"]
    ELSE [update_state |-> FALSE, outcome |-> "http_error"]

Feedback(tid) ==
    /\ feedback_calls < MaxFeedback
    /\ feedback_calls' = feedback_calls + 1
    /\ LET res == FeedbackOutcome(tid)
       IN  /\ update_state_calls' = IF res.update_state THEN update_state_calls + 1
                                    ELSE update_state_calls
           /\ last_feedback' =
                [thread_id |-> tid,
                 known |-> tid \in instances,
                 status_at |-> status,
                 at_flagged |-> /\ next_node = "execute_node"
                                /\ current_step < Len(execution_plan)
                                /\ execution_plan[current_step + 1].requires_confirmation,
                 cursor_at |-> current_step,
                 update_state |-> res.update_state,
                 outcome |-> res.outcome]
    /\ UNCHANGED beside_graph
    /\ UNCHANGED <<instances, graph_vars, stream_vars>>

Next ==
    \/ \E msgs \in Conversations, es \in BOOLEAN : Start(msgs, es)
    \/ \E reply \in PlannerReplies : AnalyzeAndPlan(reply)
    \/ \E create_ok, agent_ok \in BOOLEAN : ExecuteNode(create_ok, agent_ok)
    \/ \E reply \in SummaryReplies : GenerateResponse(reply)
    \/ GraphRaises
    \/ GraphCancelled
    \/ HandleEvent
    \/ StreamException
    \/ \E tid \in ThreadIds : Feedback(tid)

Spec == Init /\ [][Next]_vars

\* A step of the graph's own task: one of its nodes runs. The runtime runs
\* the next node once the previous one returned, and every inference and
\* agent call of a node returns or raises.
GraphStep ==
    \/ \E reply \in PlannerReplies : AnalyzeAndPlan(reply)
    \/ \E create_ok, agent_ok \in BOOLEAN : ExecuteNode(create_ok, agent_ok)
    \/ \E reply \in SummaryReplies : GenerateResponse(reply)

\* A step of chat_with_planning_stream: the caller iterates the generator,
\* which takes the next event of astream_events or its exception.
StreamStep ==
    \/ HandleEvent
    \/ StreamException

\* The run with its scheduling: neither the graph's task nor the generator
\* the response is read from is starved.
FairSpec == Spec /\ WF_vars(GraphStep) /\ WF_vars(StreamStep)

\* ------------------------------------- instances, sessions and runs

\* PlanExecutorGraph.__init__: the first instance builds the class-level
\* graph from its own bound methods; every later instance reuses that graph.
Construct(i) ==
    /\ inst_thread[i] = "absent"
    /\ inst_thread' = [inst_thread EXCEPT ![i] = "None"]
    /\ shared_owner' = IF shared_owner = 0 THEN i ELSE shared_owner
    /\ UNCHANGED <<run_of, checkpoint, agent_log>>
    /\ UNCHANGED <<plan_exec_vars, serde_vars, fun_vars>>

\* chat_with_planning_stream(thread_id) on instance i: sets the instance's
\* thread_id and starts the shared graph from initial_state under that
\* thread id. Nothing looks for a run already going on under it.
StartRun(i, sid) ==
    /\ inst_thread[i] # "absent"
    /\ run_of[i] = NoRun
    /\ inst_thread' = [inst_thread EXCEPT ![i] = sid]
    /\ run_of' = [run_of EXCEPT ![i] = [sid |-> sid, node |-> 0, active |-> TRUE]]
    /\ checkpoint' = [checkpoint EXCEPT ![sid] = [writer |-> i, node |-> 0]]
    /\ UNCHANGED <<shared_owner, agent_log>>
    /\ UNCHANGED <<plan_exec_vars, serde_vars, fun_vars>>

\* _do_execute's config thread_id: self.thread_id, where self is the
\* instance the shared graph's node methods are bound to.
AgentThread(i) ==
    inst_thread[shared_owner]

\* One pass of execute_node in the run started through instance i: the step
\* is executed with the thread id AgentThread names for the agent, and the
\* run's state is checkpointed under the run's thread id.
RunStep(i) ==
    /\ run_of[i].active
    /\ LET r == run_of[i]
           n == r.node + 1
       IN  /\ agent_log' = agent_log \cup {[session |-> r.sid, thread_used |-> AgentThread(i)]}
           /\ checkpoint' = [checkpoint EXCEPT ![r.sid] = [writer |-> i, node |-> n]]
           /\ run_of' = [run_of EXCEPT ![i] = [sid |-> r.sid, node |-> n, active |-> n < RunNodes]]
    /\ UNCHANGED <<shared_owner, inst_thread>>
    /\ UNCHANGED <<plan_exec_vars, serde_vars, fun_vars>>

SessNext ==
    \/ \E i \in InstanceIds : Construct(i)
    \/ \E i \in InstanceIds, sid \in SessionIds : StartRun(i, sid)
    \/ \E i \in InstanceIds : RunStep(i)

SessionsSpec == Init /\ [][SessNext]_vars

\* ------------------------------------------- the checkpoint serializer

\* pickle.dumps / pickle.loads of an object; pickle.loads raises on bytes
\* that are no pickle.
Pickle(obj) == [kind |-> "bytes", type |-> "absent", body |-> obj]
Unpickle(bytes) == bytes.body
UnpickleRaises(bytes) == bytes.type = "corrupt"

\* isinstance(obj, class), for one of the four message classes.
IsInstance(obj, class) == obj.kind = "message" /\ BaseOf(obj.type) = class

\* The dict dumps_typed makes of a message: 'type' is the literal
\* 'ToolMessage' in the first branch and obj.__class__.__name__ in the second.
MessageDict(msg) ==
    [kind |-> "dict",
     type |-> IF IsInstance(msg, "ToolMessage") THEN "ToolMessage" ELSE msg.type,
     body |-> IF IsInstance(msg, "ToolMessage")
              THEN [content |-> msg.body.content, tool_call_id |-> msg.body.tool_call_id,
                    name |-> msg.body.name,
                    additional_kwargs |-> msg.body.additional_kwargs, id |-> msg.body.id]
              ELSE [content |-> msg.body.content,
                    additional_kwargs |-> msg.body.additional_kwargs, id |-> msg.body.id]]

\* CustomSerializer.dumps_typed.
DumpsTyped(obj) ==
    IF IsInstance(obj, "ToolMessage")
    THEN <<"ToolMessage", Pickle(MessageDict(obj))>>
    ELSE IF \E class \in {"AIMessage", "HumanMessage", "SystemMessage"} : IsInstance(obj, class)
    THEN <<obj.type, Pickle(MessageDict(obj))>>
    ELSE <<"pickle", Pickle(obj)>>

\* CustomSerializer._reconstruct_message.
ReconstructMessage(obj_dict) ==
    IF obj_dict.type = "ToolMessage"
    THEN [kind |-> "message", type |-> "ToolMessage",
          body |-> [content |-> obj_dict.body.content, id |-> obj_dict.body.id,
                    additional_kwargs |-> obj_dict.body.additional_kwargs,
                    tool_call_id |-> obj_dict.body.tool_call_id,
                    name |-> obj_dict.body.name, other |-> "default"]]
    ELSE IF obj_dict.type \in MessageClasses
    THEN [kind |-> "message", type |-> obj_dict.type,
          body |-> [content |-> obj_dict.body.content, id |-> obj_dict.body.id,
                    additional_kwargs |-> obj_dict.body.additional_kwargs,
                    tool_call_id |-> "None", name |-> "None", other |-> "default"]]
    ELSE obj_dict

\* Faulty variant: the pair, not its bytes, is given to pickle.loads, which
\* raises, and the except branch returns the raw bytes.
LoadsTypedRawBytes(data) ==
    data[2]

\* CustomSerializer.loads_typed: the except branch returns bytes_data.
LoadsTyped(data) ==
    IF UnpickleRaises(data[2]) THEN data[2]
    ELSE LET obj == Unpickle(data[2])
         IN  IF obj.kind = "dict" /\ obj.type # "absent"
             THEN ReconstructMessage(obj)
             ELSE obj

SerdeDump ==
    /\ serde_pc = "input"
    /\ serde_data' = DumpsTyped(serde_in)
    /\ serde_pc' = "dumped"
    /\ UNCHANGED <<serde_in, serde_out>>
    /\ UNCHANGED <<plan_exec_vars, sess_vars, fun_vars>>

\* The checkpointer reads a stored pair: one dumps_typed returned, or one
\* whose bytes were damaged in the store.
SerdeLoad ==
    /\ serde_pc \in {"dumped", "stored"}
    /\ serde_out' = LoadsTyped(serde_data)
    /\ serde_pc' = "loaded"
    /\ UNCHANGED <<serde_in, serde_data>>
    /\ UNCHANGED <<plan_exec_vars, sess_vars, fun_vars>>

SerdeInit ==
    /\ GraphInit
    /\ SessInit
    /\ \/ /\ serde_pc = "input"
          /\ serde_in \in SerdeInputs
          /\ serde_data = <<"none", NoValue>>
       \/ /\ serde_pc = "stored"
          /\ serde_in = NoValue
          /\ serde_data \in CorruptStored
    /\ serde_out = NoValue
    /\ FunOff

SerdeNext ==
    \/ SerdeDump
    \/ SerdeLoad

SerdeSpec == SerdeInit /\ [][SerdeNext]_vars

\* ------------------------------------------------ result extraction

\* Strings the extraction tests by substring, as sequences of characters.
Contains(str, sub) ==
    \E i \in 1..(Len(str) - Len(sub) + 1) : SubSeq(str, i, i + Len(sub) - 1) = sub
Lower(ch) ==
    IF ch = "A" THEN "a" ELSE IF ch = "I" THEN "i" ELSE IF ch = "M" THEN "m"
    ELSE IF ch = "H" THEN "h" ELSE IF ch = "T" THEN "t" ELSE ch
LowerAll(str) == [i \in 1..Len(str) |-> Lower(str[i])]

\* msg.__class__.__name__ and str(type(msg)) of a langchain_core message.
ClassName(class) ==
    IF class = "AIMessage" THEN <<"A", "I", "M", "e", "s", "s", "a", "g", "e">>
    ELSE IF class = "HumanMessage" THEN <<"H", "u", "m", "a", "n", "M", "e", "s", "s", "a", "g", "e">>
    ELSE <<"T", "o", "o", "l", "M", "e", "s", "s", "a", "g", "e">>
ClassModule(class) ==
    <<"l", "a", "n", "g", "c", "h", "a", "i", "n", "_", "c", "o", "r", "e", ".", "m", "e", "s", "s", "a", "g", "e", "s", ".">>
        \o (IF class = "AIMessage" THEN <<"a", "i">>
            ELSE IF class = "HumanMessage" THEN <<"h", "u", "m", "a", "n">>
            ELSE <<"t", "o", "o", "l">>)
TypeString(class) ==
    <<"<", "c", "l", "a", "s", "s", " ", "'">> \o ClassModule(class) \o <<".">> \o ClassName(class) \o <<"'", ">">>

\* _do_execute: 'AI' in msg.__class__.__name__ or 'AIMessage' in str(type(msg)).
IsAIInDoExecute(class) ==
    \/ Contains(ClassName(class), <<"A", "I">>)
    \/ Contains(TypeString(class), <<"A", "I", "M", "e", "s", "s", "a", "g", "e">>)

\* _extract_execution_result: 'ai' in msg_type or 'assistant' in msg_type,
\* msg_type being str(type(msg)).lower().
IsAIInBaseGraph(class) ==
    \/ Contains(LowerAll(TypeString(class)), <<"a", "i">>)
    \/ Contains(LowerAll(TypeString(class)), <<"a", "s", "s", "i", "s", "t", "a", "n", "t">>)

\* The default _do_execute starts from: a 6-character text.
DefaultResult == Text(6, FALSE)

\* _do_execute, "extract the result": nothing is wrapped.
DoExecuteExtract(result) ==
    LET msgs == result.messages
        ai == {i \in 1..Len(msgs) : IsAIInDoExecute(msgs[i].class)}
    IN  IF result.kind = "messages"
        THEN IF msgs = <<>> THEN Extraction(DefaultResult, FALSE)
             ELSE IF ai # {}
             THEN Extraction(msgs[CHOOSE i \in ai : \A j \in ai : i >= j].content, FALSE)
             ELSE Extraction(msgs[Len(msgs)].content, FALSE)
        ELSE IF result.kind = "message" THEN Extraction(result.text, FALSE)
        ELSE IF result.kind = "text" /\ result.text.len > 0 THEN Extraction(result.text, FALSE)
        ELSE Extraction(DefaultResult, FALSE)

\* BaseGraph._extract_execution_result: the text is wrapped when it is
\* shorter than MinResultLength or contains "sorry".
ExtractExecutionResult(result) ==
    LET msgs == result.messages
        ai == {i \in 1..Len(msgs) : IsAIInBaseGraph(msgs[i].class)}
        t == IF result.kind = "messages"
             THEN IF msgs = <<>> THEN EmptyText
                  ELSE IF ai # {} THEN msgs[CHOOSE i \in ai : \A j \in ai : i >= j].content
                  ELSE msgs[Len(msgs)].content
             ELSE IF result.kind = "message" THEN result.text
             ELSE IF result.kind = "text" /\ result.text.len > 0 THEN result.text
             ELSE EmptyText
    IN  Extraction(t, t.len < MinResultLength \/ t.sorry)

ExtractInPlanExecutor ==
    /\ ex_pc = "input"
    /\ ex_plan' = DoExecuteExtract(ex_in)
    /\ ex_pc' = "plan_done"
    /\ UNCHANGED <<ex_in, ex_base, json_vars, mcp_vars>>
    /\ UNCHANGED <<plan_exec_vars, sess_vars, serde_vars>>

ExtractInBaseGraph ==
    /\ ex_pc = "plan_done"
    /\ ex_base' = ExtractExecutionResult(ex_in)
    /\ ex_pc' = "done"
    /\ UNCHANGED <<ex_in, ex_plan, json_vars, mcp_vars>>
    /\ UNCHANGED <<plan_exec_vars, sess_vars, serde_vars>>

ExtractInit ==
    /\ GraphInit
    /\ SessInit
    /\ serde_pc = "off"
    /\ SerdeOff
    /\ ex_pc = "input"
    /\ ex_in \in ExtractInputs
    /\ ex_plan = NoExtraction
    /\ ex_base = NoExtraction
    /\ jm_pc = "off"
    /\ JsonOff
    /\ McpOff

ExtractNext ==
    \/ ExtractInPlanExecutor
    \/ ExtractInBaseGraph

ExtractSpec == ExtractInit /\ [][ExtractNext]_vars

\* ------------------------------------------------------- json_match

\* The place of the brace closing the block open at depth d when the scan
\* is at j, 0 if the content ends first or a brace opens beyond maxd.
RECURSIVE MatchEnd(_, _, _, _)
MatchEnd(content, j, d, maxd) ==
    IF j > Len(content) THEN 0
    ELSE IF content[j] = "{"
    THEN IF d + 1 > maxd THEN 0 ELSE MatchEnd(content, j + 1, d + 1, maxd)
    ELSE IF content[j] = "}"
    THEN IF d = 1 THEN j ELSE MatchEnd(content, j + 1, d - 1, maxd)
    ELSE MatchEnd(content, j + 1, d, maxd)

\* json.loads of a text: it parses when the text is one object, its braces
\* balanced, without ill-formed text; the value is given by the object's
\* tokens.
JsonLoads(text) ==
    LET ok == /\ Len(text) >= 2
              /\ text[1] = "{"
              /\ MatchEnd(text, 2, 1, Len(text)) = Len(text)
              /\ \A i \in 1..Len(text) : text[i] # "x"
    IN  [ok |-> ok, value |-> IF ok THEN text ELSE <<>>]

\* re.search(r'\{.*\}', content, re.DOTALL): from the first opening brace
\* to the last closing brace, <<>> without a match.
SearchSpan(content) ==
    LET opens == {i \in 1..Len(content) : content[i] = "{"}
        closes == {i \in 1..Len(content) : content[i] = "}"}
        first == CHOOSE i \in opens : \A j \in opens : i <= j
        last == CHOOSE i \in closes : \A j \in closes : i >= j
    IN  IF opens = {} \/ closes = {} THEN <<>>
        ELSE IF first < last THEN SubSeq(content, first, last) ELSE <<>>

\* re.findall of the block pattern whose inner braces nest at most `nesting`
\* deep: the matches from position i on, left to right, not overlapping.
RECURSIVE FindAll(_, _, _)
FindAll(content, i, nesting) ==
    IF i > Len(content) THEN <<>>
    ELSE LET to == IF content[i] = "{" THEN MatchEnd(content, i + 1, 1, nesting + 1) ELSE 0
         IN  IF to > 0
             THEN <<SubSeq(content, i, to)>> \o FindAll(content, to + 1, nesting)
             ELSE FindAll(content, i + 1, nesting)

\* The loop over the matches: the value of the first one that parses.
FirstParsed(matches) ==
    LET good == {k \in 1..Len(matches) : JsonLoads(matches[k]).ok}
    IN  IF good = {} THEN [ok |-> FALSE, value |-> <<>>]
        ELSE JsonLoads(matches[CHOOSE k \in good : \A l \in good : k <= l])

\* json_match.
JsonMatch(content) ==
    IF content = <<>> THEN EmptyObject
    ELSE IF JsonLoads(content).ok THEN JsonLoads(content).value
    ELSE IF JsonLoads(SearchSpan(content)).ok THEN JsonLoads(SearchSpan(content)).value
    ELSE IF FirstParsed(FindAll(content, 1, 1)).ok
    THEN FirstParsed(FindAll(content, 1, 1)).value
    ELSE IF FirstParsed(FindAll(content, 1, 2)).ok
    THEN FirstParsed(FindAll(content, 1, 2)).value
    ELSE EmptyObject

JsonMatchCall ==
    /\ jm_pc = "input"
    /\ jm_out' = JsonMatch(jm_in)
    /\ jm_pc' = "done"
    /\ UNCHANGED <<jm_in, extract_vars, mcp_vars>>
    /\ UNCHANGED <<plan_exec_vars, sess_vars, serde_vars>>

JsonInit ==
    /\ GraphInit
    /\ SessInit
    /\ serde_pc = "off"
    /\ SerdeOff
    /\ ex_pc = "off"
    /\ ExtractOff
    /\ jm_pc = "input"
    /\ jm_in \in Contents
    /\ jm_out = <<>>
    /\ McpOff

JsonNext ==
    JsonMatchCall

JsonSpec == JsonInit /\ [][JsonNext]_vars

\* ------------------------------------------------ the MCP client manager
\* mcp_/client.py. get_or_create_client and close_client run their bodies
\* inside `async with self._client_lock`. The steps of a call are taken one
\* at a time, so that what keeps two bodies apart is the lock alone.

\* Faulty variant: the lock lets a task in while another holds it.
LockFreeAlways(lock) == TRUE

\* asyncio.Lock: acquire returns once no task holds the lock.
LockFree(lock) == lock = NoTask

\* The number of the next client constructed.
NextClient == 1 + Cardinality({i \in 1..Len(mcp_log) : mcp_log[i].kind = "built"})

\* A task calls get_or_create_client or close_client.
Call(t, op) ==
    /\ task_pc[t] = "idle"
    /\ calls_made < MaxCalls
    /\ calls_made' = calls_made + 1
    /\ task_op' = [task_op EXCEPT ![t] = op]
    /\ task_pc' = [task_pc EXCEPT ![t] = "acquire"]
    /\ UNCHANGED <<mcp_configs, mcp_client, client_lock, mcp_log>>
    /\ UNCHANGED <<plan_exec_vars, sess_vars, serde_vars, extract_vars, json_vars>>

\* async with self._client_lock: entered.
Acquire(t) ==
    /\ task_pc[t] = "acquire"
    /\ LockFree(client_lock)
    /\ client_lock' = t
    /\ task_pc' = [task_pc EXCEPT ![t] = "locked"]
    /\ UNCHANGED <<mcp_configs, mcp_client, task_op, calls_made, mcp_log>>
    /\ UNCHANGED <<plan_exec_vars, sess_vars, serde_vars, extract_vars, json_vars>>

\* get_or_create_client, `if self._client is not None: return self._client`:
\* the stored client is returned and the lock released, or the call goes on
\* to make one.
CheckClient(t) ==
    /\ task_pc[t] = "locked"
    /\ task_op[t] = "get"
    /\ IF mcp_client # NoClient
       THEN /\ mcp_log' = Append(mcp_log, McpEvent("returned", t, mcp_client))
            /\ client_lock' = NoTask
            /\ task_pc' = [task_pc EXCEPT ![t] = "idle"]
       ELSE /\ task_pc' = [task_pc EXCEPT ![t] = "create"]
            /\ UNCHANGED <<mcp_log, client_lock>>
    /\ UNCHANGED <<mcp_configs, mcp_client, task_op, calls_made>>
    /\ UNCHANGED <<plan_exec_vars, sess_vars, serde_vars, extract_vars, json_vars>>

\* get_or_create_client from `if not self.mcp_configs` on: None is returned
\* without a client stored when there are no configurations, when none of
\* them is valid, and when MultiServerMCPClient or the conversion raises;
\* otherwise the new client is stored and returned. The lock is released.
CreateClient(t, raises) ==
    /\ task_pc[t] = "create"
    /\ IF mcp_configs = "valid" /\ ~raises
       THEN /\ mcp_client' = NextClient
            /\ mcp_log' = mcp_log \o <<McpEvent("built", t, NextClient),
                                       McpEvent("returned", t, NextClient)>>
       ELSE /\ mcp_client' = mcp_client
            /\ mcp_log' = Append(mcp_log, McpEvent("failed", t, mcp_client))
    /\ client_lock' = NoTask
    /\ task_pc' = [task_pc EXCEPT ![t] = "idle"]
    /\ UNCHANGED <<mcp_configs, task_op, calls_made>>
    /\ UNCHANGED <<plan_exec_vars, sess_vars, serde_vars, extract_vars, json_vars>>

\* close_client: the reference is cleared, whether or not there was one, and
\* the lock released.
CloseClient(t) ==
    /\ task_pc[t] = "locked"
    /\ task_op[t] = "close"
    /\ mcp_client' = NoClient
    /\ mcp_log' = Append(mcp_log, McpEvent("closed", t, mcp_client))
    /\ client_lock' = NoTask
    /\ task_pc' = [task_pc EXCEPT ![t] = "idle"]
    /\ UNCHANGED <<mcp_configs, task_op, calls_made>>
    /\ UNCHANGED <<plan_exec_vars, sess_vars, serde_vars, extract_vars, json_vars>>

McpInit ==
    /\ GraphInit
    /\ SessInit
    /\ serde_pc = "off"
    /\ SerdeOff
    /\ ex_pc = "off"
    /\ ExtractOff
    /\ jm_pc = "off"
    /\ JsonOff
    /\ mcp_configs \in McpConfigs
    /\ McpNew

McpNext ==
    \/ \E t \in Tasks, op \in {"get", "close"} : Call(t, op)
    \/ \E t \in Tasks : Acquire(t)
    \/ \E t \in Tasks : CheckClient(t)
    \/ \E t \in Tasks, raises \in BOOLEAN : CreateClient(t, raises)
    \/ \E t \in Tasks : CloseClient(t)

McpSpec == McpInit /\ [][McpNext]_vars

\* ------------------------------------------------------------ properties

\* The planner returned a plan of JSON objects.
ValidPlan == execution_plan # <<>> /\ \A i \in 1..Len(execution_plan) : execution_plan[i].is_dict
NoneFlagged == \A i \in 1..Len(execution_plan) : ~execution_plan[i].requires_confirmation
AllAgentCallsOk == \A i \in 1..Len(agent_calls) : agent_calls[i].created /\ agent_calls[i].ok
SomeStepFailed == \E i \in 1..Len(step_results) : step_results[i].status = "failed"
CountStep(evs, step) == Cardinality({i \in 1..Len(evs) : evs[i].step = step})
CountType(evs, type) == Cardinality({i \in 1..Len(evs) : evs[i].type = type})
SuccessfulRun == ValidPlan /\ NoneFlagged /\ AllAgentCallsOk /\ error # "summary_error"

\* C1: a run over a valid plan of N >= 1 steps, none flagged, whose step
\* executions and summary all succeed, ends with status completed,
\* len(step_results) = N and current_step = N.
C1_SuccessfulRunCompletes ==
    (next_node = "END" /\ SuccessfulRun)
        => /\ status = "completed"
           /\ Len(step_results) = Len(execution_plan)
           /\ current_step = Len(execution_plan)

\* C2: for a successful run over N unflagged steps the caller's stream holds
\* exactly N events with step = node_completed, and then exactly one
\* completed event, which is last.
C2_ExactlyNStepCompletedEvents ==
    (stream = "closed" /\ SuccessfulRun /\ status = "completed")
        => /\ CountStep(delivered, "node_completed") = Len(execution_plan)
           /\ CountType(delivered, "completed") = 1
           /\ delivered[Len(delivered)].type = "completed"

\* C3: a step flagged requires_confirmation is not executed before a
\* confirmation_required event was emitted for it and feedback was supplied.
C3_FlaggedStepWaitsForFeedback ==
    \A i \in 1..Len(agent_calls) :
        execution_plan[agent_calls[i].step].requires_confirmation
            => /\ \E k \in 1..Len(streaming_chunks) :
                    /\ streaming_chunks[k].step = "confirmation_required"
                    /\ streaming_chunks[k].node_index = agent_calls[i].step - 1
               /\ update_state_calls > 0

\* C4: a feedback request that reaches a session standing at a flagged step
\* resumes it: the text is recorded on that step and the step is executed,
\* with step-started, step-completed and completed events following.
C4_ResumeContinuesFromSameStep ==
    (last_feedback.known /\ last_feedback.at_flagged) => last_feedback.outcome = "resumed"

\* C5: a feedback request on a session whose status is completed or failed
\* is rejected before anything is written to the session's state.
C5_TerminalResumeRejected ==
    last_feedback.status_at \in Terminal
        => last_feedback.outcome = "http_error" /\ ~last_feedback.update_state

\* C6: a feedback request naming a thread id no session was started under
\* is rejected with an HTTP error: graph.update_state is not called and no
\* stream is opened.
C6_UnknownSessionRejected ==
    (last_feedback.thread_id # "none" /\ ~last_feedback.known)
        => last_feedback.outcome = "http_error" /\ ~last_feedback.update_state

C6_Witness ==
    /\ last_feedback.thread_id = "other"
    /\ ~last_feedback.known
    /\ user_id \in instances
    /\ last_feedback.outcome = "http_error"
    /\ update_state_calls = 0

\* C7: after a step's result is failed no later step is executed and the
\* failed step is not executed again: only the last step execution of a
\* run may have failed, the invocations go up the plan one step at a time,
\* and only the last StepResult may be failed.
C7_FailFast ==
    /\ \A i, j \in 1..Len(agent_calls) :
            i < j => agent_calls[i].ok /\ agent_calls[i].step < agent_calls[j].step
    /\ \A i \in 1..Len(step_results) :
            step_results[i].status = "failed" => i = Len(step_results)

C7_Witness ==
    /\ next_node = "END"
    /\ SomeStepFailed
    /\ Len(step_results) < Len(execution_plan)
    /\ Len(agent_calls) = Len(step_results)

\* C8: when a step failed the session does not end completed and no
\* completed event is delivered: the final status is failed and the
\* stream's last event is an error event.
C8_StepFailureEndsFailed ==
    SomeStepFailed
        => /\ status # "completed"
           /\ next_node = "END" => status = "failed"
           /\ \A k \in 1..Len(delivered) :
                delivered[k].type # "completed" /\ delivered[k].step # "completed"
           /\ stream = "closed" => delivered[Len(delivered)].type = "error"

\* C9: the summary inference call is made at most once, and only when the
\* plan was created and every step of it has a completed StepResult.
C9_SummaryOnlyAfterSuccess ==
    /\ summary_calls <= 1
    /\ summary_calls > 0
        => /\ execution_plan # <<>>
           /\ Len(step_results) = Len(execution_plan)
           /\ ~SomeStepFailed

\* C10: once status is completed or failed, no graph node changes status,
\* current_step, step_results, final_response or error.
C10_TerminalAbsorbing ==
    [][(status \in Terminal)
        => (UNCHANGED <<status, current_step, step_results, final_response, error>>)]_vars

\* C11: when the planner's reply holds no plan with a non-empty step list,
\* the status is and stays failed with the error recorded, no step is
\* executed, no summary call is made and planning is not called again.
C11_PlanParseFailureIsFatal ==
    error = "plan_parse_failed"
        => /\ status = "failed"
           /\ agent_calls = <<>>
           /\ summary_calls = 0
           /\ plan_calls = 1

\* The conversation gives no task: it has no human message, or its last
\* human message is empty.
NoUserTask ==
    \A i \in 1..Len(messages) :
        messages[i].human
            => \/ messages[i].content = ""
               \/ \E j \in (i + 1)..Len(messages) : messages[j].human

C13_FallbackOnAgentError ==
    \A i \in 1..Len(agent_calls) : ~agent_calls[i].ok => agent_calls[i].fallbacks = 1

\* C14: between node executions current_step = len(step_results), also after
\* a failed step and after an exception inside the execute node.
C14_CursorEqualsResults ==
    current_step = Len(step_results)

C14_Witness ==
    /\ status = "node_failed"
    /\ error = "node_failed"
    /\ SomeStepFailed
    /\ current_step = 1
    /\ Len(step_results) = 1
    /\ Len(execution_plan) = 2

\* C15: step_results only grows by appending: a transition leaves it as it
\* is or appends one StepResult whose step number is the previous length
\* plus one, and a step execution always appends its result.
C15_ResultsAppendOnly ==
    [][/\ \/ step_results' = step_results
          \/ /\ Len(step_results') = Len(step_results) + 1
             /\ SubSeq(step_results', 1, Len(step_results)) = step_results
             /\ step_results'[Len(step_results')].step = Len(step_results) + 1
             /\ Len(agent_calls') = Len(agent_calls) + 1
       /\ (agent_calls' # agent_calls) => (Len(step_results') = Len(step_results) + 1)]_vars

C15_Witness ==
    /\ Len(step_results) = 1
    /\ step_results[1].step = 1
    /\ Len(agent_calls) = 1
    /\ Len(execution_plan) = 2
    /\ next_node = "END"

\* The place of a delivered event in the causal order: the plan, then per
\* step its started, completed and failed events, then the completion.
Phase(ev) ==
    IF ev.step = "planning" THEN 0
    ELSE IF ev.step = "executing_node" THEN 3 * ev.node_index + 1
    ELSE IF ev.step = "node_completed" THEN 3 * ev.node_index + 2
    ELSE IF ev.step = "execution_failed" THEN 3 * ev.node_index + 3
    ELSE 3 * Len(execution_plan) + 4

\* C16: events reach the caller in causal order: no event of an earlier
\* phase is delivered after an event of a later phase.
C16_CausalOrder ==
    \A i, j \in 1..Len(delivered) : i < j => Phase(delivered[i]) <= Phase(delivered[j])

\* C17: every streaming chunk a node appended is delivered at most once.
C17_EachChunkDeliveredOnce ==
    \A i, j \in 1..Len(delivered) :
        (i < j /\ delivered[i].step # "none")
            => ~(/\ delivered[i].step = delivered[j].step
                 /\ delivered[i].node_index = delivered[j].node_index)

\* C18: every step execution made for a session runs under that session's
\* own thread id: the one its agent is configured with is the session's.
C18_AgentRunsUnderOwnSession ==
    \A a \in agent_log : a.thread_used = a.session

\* C19: a session is advanced by one run at a time: two runs under the same
\* session id are never in progress together.
C19_OneRunPerSession ==
    \A i, j \in InstanceIds :
        (i # j /\ run_of[i].active /\ run_of[j].active) => run_of[i].sid # run_of[j].sid

\* C20: dumps_typed followed by loads_typed gives back an execution state
\* with the same execution_plan, current_step and step_results.
C20_CheckpointRoundTrip ==
    (serde_pc = "loaded" /\ serde_in.kind = "dict" /\ serde_in.type = "absent")
        => /\ serde_out.kind = "dict"
           /\ serde_out.body.execution_plan = serde_in.body.execution_plan
           /\ serde_out.body.current_step = serde_in.body.current_step
           /\ serde_out.body.step_results = serde_in.body.step_results

C20_Witness ==
    /\ serde_pc = "loaded"
    /\ serde_in.kind = "dict"
    /\ serde_data[1] = "pickle"
    /\ Len(serde_in.body.execution_plan) = 2
    /\ serde_in.body.current_step = 2
    /\ serde_in.body.step_results[2].status = "failed"
    /\ serde_out = serde_in

\* The first place of an event with this step in the caller's stream (0: none).
FirstOf(step) ==
    LET at == {i \in 1..Len(delivered) : delivered[i].step = step}
    IN  IF at = {} THEN 0 ELSE CHOOSE i \in at : \A j \in at : i <= j

\* C21: a run over a 1-step unflagged plan, without feedback, in which the
\* planner, the agent and the summarizer answer without error: the step's
\* prompt is built, its StepResult is completed, the run ends completed with
\* a non-empty final response, and the caller got plan-created,
\* step-started, step-completed and completed in that order.
C21_OneStepScenario ==
    (/\ next_node = "END"
     /\ stream = "closed"
     /\ execution_plan = <<PlainStep>>
     /\ feedback_calls = 0
     /\ AllAgentCallsOk
     /\ error # "summary_error"
     /\ final_response # "")
        => /\ PromptBuilt
           /\ Len(step_results) = 1
           /\ step_results[1].step = 1
           /\ step_results[1].status = "completed"
           /\ status = "completed"
           /\ 0 < FirstOf("planning")
           /\ FirstOf("planning") < FirstOf("executing_node")
           /\ FirstOf("executing_node") < FirstOf("node_completed")
           /\ FirstOf("node_completed") < FirstOf("completed")

SpecState(st) ==
    IF st = "none" THEN "idle"
    ELSE IF st = "initializing" THEN "planning"
    ELSE IF st \in {"planned", "node_completed"} THEN "active"
    ELSE IF st \in {"node_failed", "failed"} THEN "failed"
    ELSE "completed"

\* The transitions the specified machine allows between these states.
SpecAllows(from, to) ==
    \/ from = to
    \/ from = "idle" /\ to = "planning"
    \/ from = "planning" /\ to \in {"active", "failed"}
    \/ from = "active" /\ to \in {"failed", "completed"}

\* C23: every change of status the graph makes is a transition the
\* specified state machine allows, and none leaves failed or completed.
C23_StatusRefinesSpecMachine ==
    [][SpecAllows(SpecState(status), SpecState(status'))]_vars

\* C24: the caller's stream never ends by an exception: when the graph run
\* raised, the stream ends with an error event.
C24_StreamNeverRaises ==
    /\ stream \in {"none", "open", "closed"}
    /\ (next_node = "raised" /\ stream = "closed")
            => delivered[Len(delivered)].type = "error"

C24_Witness ==
    /\ next_node = "raised"
    /\ stream = "closed"
    /\ Len(delivered) > 1
    /\ delivered[Len(delivered)] = TerminalEvent("error", "stream_exception")

\* The text the extraction priority names for a result: the content of the
\* last AIMessage of a message sequence, of its last message when it holds
\* no AIMessage, or the text of a single message or a bare text.
PriorityText(result) ==
    LET msgs == result.messages
        ai == {i \in 1..Len(msgs) : msgs[i].class = "AIMessage"}
    IN  IF result.kind = "messages"
        THEN IF ai # {} THEN msgs[CHOOSE i \in ai : \A j \in ai : i >= j].content
             ELSE msgs[Len(msgs)].content
        ELSE result.text

\* C25: for a non-empty message sequence, a single message or a non-empty
\* bare text, the extracted text is the one the priority names, in
\* _do_execute and in _extract_execution_result alike.
C25_ExtractionPriority ==
    (/\ ex_pc = "done"
     /\ \/ ex_in.kind = "messages" /\ ex_in.messages # <<>>
        \/ ex_in.kind = "message"
        \/ ex_in.kind = "text" /\ ex_in.text.len > 0)
        => /\ ex_plan.text = PriorityText(ex_in)
           /\ ex_base.text = PriorityText(ex_in)

\* C26: a text the plan executor's step execution extracted that is shorter
\* than the threshold or contains the apology marker is wrapped with the
\* step's description and the completed annotation.
C26_ShortResultWrapped ==
    (/\ ex_pc \in {"plan_done", "done"}
     /\ ex_plan.text.len < MinResultLength \/ ex_plan.text.sorry)
        => ex_plan.wrapped

\* The blocks of a content whose braces balance, by their first token.
BalancedEnd(content, i) ==
    IF content[i] = "{" THEN MatchEnd(content, i + 1, 1, Len(content)) ELSE 0

\* What the strategies, in their order, give for a content: the whole
\* content; else the span from the first opening to the last closing brace;
\* else the leftmost brace-balanced block that parses; else the empty object.
StrategyResult(content) ==
    LET starts == {i \in 1..Len(content) :
                      /\ BalancedEnd(content, i) > 0
                      /\ JsonLoads(SubSeq(content, i, BalancedEnd(content, i))).ok}
        first == CHOOSE i \in starts : \A j \in starts : i <= j
    IN  IF content = <<>> THEN EmptyObject
        ELSE IF JsonLoads(content).ok THEN content
        ELSE IF JsonLoads(SearchSpan(content)).ok THEN SearchSpan(content)
        ELSE IF starts # {} THEN SubSeq(content, first, BalancedEnd(content, first))
        ELSE EmptyObject

\* C27: json_match returns what the first strategy that parses gives, in
\* the fixed order, and the empty object when the content is empty or none
\* parses.
C27_JsonMatchStrategyOrder ==
    jm_pc = "done" => jm_out = StrategyResult(jm_in)

\* C28: the planning node accepts a payload as the plan only if every step
\* of it is an object with the fields of a step.
C28_OnlyValidPlansAccepted ==
    status = "planned" => \A i \in 1..Len(execution_plan) : execution_plan[i].is_dict

\* C29: once the planning node has run, nothing changes execution_plan or
\* task_analysis and no planning inference call is made: a run that has a
\* task makes exactly one.
C29_PlanImmutable ==
    /\ [][(next_node \notin {"idle", "analyze_and_plan"})
            => (/\ execution_plan' = execution_plan
                /\ task_analysis' = task_analysis
                /\ plan_calls' = plan_calls)]_vars
    /\ [](plan_calls <= 1)
    /\ []((next_node \in {"execute_node", "generate_response", "END"} /\ ~NoUserTask)
            => plan_calls = 1)

C29_Witness ==
    /\ next_node = "END"
    /\ Len(execution_plan) = 2
    /\ task_analysis = "analysis"
    /\ plan_calls = 1
    /\ summary_calls = 1
    /\ Len(step_results) = 1

\* C30: 0 <= current_step <= len(execution_plan), and the execute node reads
\* execution_plan only at a position below its length.
C30_CursorInRange ==
    /\ 0 <= current_step
    /\ current_step <= Len(execution_plan)
    /\ \A i \in 1..Len(agent_calls) : agent_calls[i].step - 1 < Len(execution_plan)

C30_Witness ==
    /\ next_node = "generate_response"
    /\ status = "node_failed"
    /\ Len(execution_plan) = 1
    /\ current_step = 1
    /\ Len(agent_calls) = 1

\* C31: every run of start terminates: the execute node runs at most
\* len(execution_plan) + 1 times, each of its passes advances current_step by
\* one, records a failure or finds the plan exhausted, and a graph that has a
\* node to run gets to have none.
C31_RunTerminates ==
    /\ [](execute_runs <= Len(execution_plan) + 1)
    /\ [][execute_runs' # execute_runs =>
            \/ current_step' = current_step + 1
            \/ status' = "node_failed"
            \/ status' = "all_nodes_completed"]_vars
    /\ (next_node \in Running ~> next_node \notin Running)

\* A plan of two steps was executed, and the graph reached its end.
C31_Witness ==
    /\ next_node = "END"
    /\ Len(execution_plan) = 2
    /\ execute_runs >= 1
    /\ current_step = 1

\* C32: step execution never propagates an exception and never returns a
\* partial result on error: every call of _do_execute returns a StepResult
\* for its step, and when creating the agent, building the prompt or invoking
\* the agent raised, that result has status failed and carries the error.
C32_StepErrorsBecomeFailedResults ==
    /\ Len(step_results) = Len(agent_calls)
    /\ \A i \in 1..Len(agent_calls) :
          LET raised == \/ ~agent_calls[i].created
                        \/ FormatRaises(ReactPromptVariables, ReactFormatArguments)
                        \/ ~agent_calls[i].ok
          IN  /\ step_results[i].step = agent_calls[i].step
              /\ raised => /\ step_results[i].status = "failed"
                            /\ step_results[i].error_details # ""

\* A step whose agent was created was executed, and an error was raised.
C32_Witness ==
    /\ Len(agent_calls) = 1
    /\ agent_calls[1].created
    /\ Len(step_results) = 1
    /\ step_results[1].status = "failed"
    /\ step_results[1].error_details = "KeyError"
    /\ error # "node_exception"

\* C33: a checkpoint whose stored bytes cannot be deserialized is treated as
\* "session not found": reading it yields no value.
C33_CorruptCheckpointNotFound ==
    (serde_pc = "loaded" /\ serde_data \in CorruptStored) => serde_out = NoValue

\* C34: the stream of chat_with_planning_stream has exactly one terminal
\* event (type completed or error) and nothing after it: never two, a
\* terminal event is the last one delivered and ends the stream, a stream
\* that has ended has one, and every stream ends.
C34_ExactlyOneTerminalEvent ==
    /\ [](LET terminals == CountType(delivered, "completed") + CountType(delivered, "error")
          IN  /\ terminals <= 1
              /\ terminals = 1 => /\ delivered[Len(delivered)].type \in {"completed", "error"}
                                  /\ stream = "closed"
              /\ stream \notin {"none", "open"} => terminals = 1)
    /\ (stream = "open" ~> stream # "open")

\* A run whose step failed and whose summary was made ended its stream with
\* the completed event, after the events of the nodes.
C34_Witness ==
    /\ stream = "closed"
    /\ Len(delivered) >= 4
    /\ delivered[Len(delivered)].type = "completed"
    /\ CountStep(delivered, "execution_failed") >= 1
    /\ CountType(delivered, "error") = 0

\* Whether close_client ran between the places i and j of mcp_log.
ClosedBetween(i, j) == \E k \in (i + 1)..(j - 1) : mcp_log[k].kind = "closed"

\* C36: under any interleaving of get_or_create_client and close_client
\* calls, two clients are constructed only with a close_client between them,
\* a client returned is the one constructed since the last close_client, and
\* a failed construction leaves the stored client unset.
C36_OneClientBetweenCloses ==
    \A j \in 1..Len(mcp_log) :
        /\ mcp_log[j].kind = "built" =>
              \A i \in 1..(j - 1) : mcp_log[i].kind = "built" => ClosedBetween(i, j)
        /\ mcp_log[j].kind = "returned" =>
              \E i \in 1..(j - 1) : /\ mcp_log[i].kind = "built"
                                    /\ mcp_log[i].client = mcp_log[j].client
                                    /\ ~ClosedBetween(i, j)
        /\ mcp_log[j].kind = "failed" => mcp_log[j].client = NoClient

\* Two tasks were inside get_or_create_client together; a construction
\* failed, a later call constructed the client, and both tasks got it.
C36_Witness ==
    /\ \E i, j, k, l \in 1..Len(mcp_log) :
          /\ i < j /\ j < k /\ k < l
          /\ mcp_log[i].kind = "failed"
          /\ mcp_log[j].kind = "built"
          /\ mcp_log[k].kind = "returned" /\ mcp_log[l].kind = "returned"
          /\ mcp_log[k].client = mcp_log[l].client
          /\ mcp_log[k].task # mcp_log[l].task
    /\ \E t \in Tasks : task_pc[t] = "acquire" /\ client_lock \notin {NoTask, t}

\* C37: loads_typed(dumps_typed(m)) of a ToolMessage, AIMessage, HumanMessage
\* or SystemMessage m is a message of the same class with the same content,
\* id and additional_kwargs (and tool_call_id and name for a ToolMessage);
\* every other value but a dict with a 'type' key comes back equal.
C37_MessageRoundTrip ==
    (serde_pc = "loaded" /\ serde_in # NoValue) =>
        IF serde_in.kind = "message" /\ BaseOf(serde_in.type) \in MessageClasses
        THEN /\ serde_out.kind = "message"
             /\ serde_out.type = serde_in.type
             /\ serde_out.body.content = serde_in.body.content
             /\ serde_out.body.id = serde_in.body.id
             /\ serde_out.body.additional_kwargs = serde_in.body.additional_kwargs
             /\ BaseOf(serde_in.type) = "ToolMessage" =>
                    /\ serde_out.body.tool_call_id = serde_in.body.tool_call_id
                    /\ serde_out.body.name = serde_in.body.name
        ELSE (serde_in.kind = "dict" /\ serde_in.type # "absent") \/ serde_out = serde_in

====
